---- MODULE Spec2Model ----
(***************************************************************************)
(* Human Meter v5.0 analysis engine (client/src/pages/Home.tsx).           *)
(*                                                                         *)
(* Numbers.  JavaScript doubles are modelled in fixed point:               *)
(*   - quantities of the unit interval (coherence, confidence, ...) are    *)
(*     integers in units of 1/Unit (Unit = 10000);                         *)
(*   - integrity (0..100) is an integer in units of 1/Milli (Milli = 1000),*)
(*     so 100 is 100000;                                                   *)
(*   - soundness and temporal probabilities are the integers Math.round    *)
(*     yields.                                                             *)
(* Text.  A text is a TLA+ string; the regular expressions of the source   *)
(* are modelled by substring search over its characters.                   *)
(***************************************************************************)
EXTENDS Integers, Sequences, FiniteSets, TLC

VARIABLES history, now, call

vars == <<history, now, call>>

Unit == 100 * 100
Milli == 10 * 100

(***************************************************************************)
(* Strings and regular expressions                                         *)
(***************************************************************************)
Min(a, b) == IF a < b THEN a ELSE b
Max(a, b) == IF a > b THEN a ELSE b

\* x / y rounded to the nearest integer (y > 0), halves away from zero.
DivRound(x, y) == IF x >= 0 THEN (2 * x + y) \div (2 * y)
                  ELSE -((2 * (-x) + y) \div (2 * y))

\* F(v), v evaluated once and bound as a value
Let(v, F(_)) == CHOOSE r \in {F(x) : x \in {v}} : TRUE

CharAt(s, i) == SubSeq(s, i, i)

UpperCase == "ABCDEFGHIJKLMNOPQRSTUVWXYZ"
LowerCase == "abcdefghijklmnopqrstuvwxyz"
Digits == "0123456789"

InChars(c, chars) == \E i \in 1..Len(chars) : CharAt(chars, i) = c

LowerChar(c) ==
  IF InChars(c, UpperCase)
  THEN CharAt(LowerCase, CHOOSE i \in 1..Len(UpperCase) : CharAt(UpperCase, i) = c)
  ELSE c

\* String.prototype.toLowerCase
RECURSIVE toLowerCase(_)
toLowerCase(s) ==
  IF Len(s) = 0 THEN ""
  ELSE LowerChar(CharAt(s, 1)) \o toLowerCase(SubSeq(s, 2, Len(s)))

IsSpace(c) == c \in {" ", "\t", "\n"}
IsLineEnd(c) == c = "\n"
\* \w of a regular expression
IsWordChar(c) == InChars(c, UpperCase) \/ InChars(c, LowerCase)
                 \/ InChars(c, Digits) \/ c = "_"

\* the literal p occurs in s at position i
At(s, p, i) == i >= 1 /\ i + Len(p) - 1 <= Len(s) /\ SubSeq(s, i, i + Len(p) - 1) = p

\* /p/.test(s) for a literal p
Has(s, p) == \E i \in 1..(Len(s) + 1) : At(s, p, i)

\* no line terminator in s[from..to-1]: what `.*` may span
NoLineEnd(s, from, to) == \A k \in from..(to - 1) : ~IsLineEnd(CharAt(s, k))

\* /p1.*p2.*p3/.test(s): the literals of parts in order, `.*` between them
RECURSIVE ChainFrom(_, _, _, _)
ChainFrom(s, parts, k, from) ==
  IF k > Len(parts) THEN TRUE
  ELSE \E i \in from..(Len(s) + 1) :
         /\ At(s, parts[k], i)
         /\ (k > 1 => NoLineEnd(s, from, i))
         /\ ChainFrom(s, parts, k + 1, i + Len(parts[k]))

HasChain(s, parts) == ChainFrom(s, parts, 1, 1)

\* /a|b|c/.test(s) for literals
HasAny(s, alts) == \E p \in alts : Has(s, p)

\* /\d+/.test(s)
HasDigit(s) == \E i \in 1..Len(s) : InChars(CharAt(s, i), Digits)

\* (s.match(/(a|b|c)/g) || []).length: leftmost matches, alternatives tried in
\* order, scanning resumed after each match.
RECURSIVE CountFrom(_, _, _)
CountFrom(s, alts, from) ==
  LET hit(i) == \E k \in 1..Len(alts) : At(s, alts[k], i) IN
  IF \A i \in from..Len(s) : ~hit(i) THEN 0
  ELSE LET i == CHOOSE i \in from..Len(s) : hit(i) /\ \A j \in from..(i - 1) : ~hit(j)
           k == CHOOSE k \in 1..Len(alts) :
                  /\ At(s, alts[k], i)
                  /\ \A j \in 1..(k - 1) : ~At(s, alts[j], i)
       IN  1 + CountFrom(s, alts, i + Len(alts[k]))

MatchCount(s, alts) == CountFrom(s, alts, 1)

\* s.split(/\s+/): the pieces between maximal runs of white space; a leading or
\* a trailing run leaves an empty piece, and "" splits into [""].
RECURSIVE SplitFrom(_, _, _)
SplitFrom(s, i, piece) ==
  IF i > Len(s) THEN <<piece>>
  ELSE IF IsSpace(CharAt(s, i))
       THEN LET j == CHOOSE j \in (i + 1)..(Len(s) + 1) :
                       /\ \A k \in i..(j - 1) : IsSpace(CharAt(s, k))
                       /\ (j <= Len(s) => ~IsSpace(CharAt(s, j)))
            IN  <<piece>> \o SplitFrom(s, j, "")
       ELSE SplitFrom(s, i + 1, piece \o CharAt(s, i))

SplitWhitespace(s) == SplitFrom(s, 1, "")

Range(f) == {f[i] : i \in DOMAIN f}

RECURSIVE SumSeq(_)
SumSeq(q) == IF Len(q) = 0 THEN 0 ELSE Head(q) + SumSeq(Tail(q))

(***************************************************************************)
(* StatementContext: a mapping with any subset of the optional fields      *)
(* domain, actualLoad, trustLayers, verificationLevel.                     *)
(***************************************************************************)
EmptyContext == <<>>

HasField(o, k) == k \in DOMAIN o

\* ctx.k || dflt for a numeric field (absent and 0 are falsy)
NumOr(ctx, k, dflt) == IF HasField(ctx, k) /\ ctx[k] # 0 THEN ctx[k] ELSE dflt

\* ctx.k || dflt for a string field (absent and "" are falsy)
StrOr(ctx, k, dflt) == IF HasField(ctx, k) /\ ctx[k] # "" THEN ctx[k] ELSE dflt

(***************************************************************************)
(* QuantumConstraintSystem                                                 *)
(***************************************************************************)
universal ==
  << [key |-> "temporal", id |-> "TIME-001", axiom |-> "Cause precedes effect",
      severity |-> "CRITICAL"],
     [key |-> "conservation", id |-> "PHYS-001",
      axiom |-> "Energy cannot be created from nothing", severity |-> "CRITICAL"],
     [key |-> "structural", id |-> "PHYS-002", axiom |-> "Weight requires support",
      severity |-> "HIGH"],
     [key |-> "trust", id |-> "SOC-001", axiom |-> "Trust decays with distance",
      severity |-> "MODERATE"],
     [key |-> "amos", id |-> "SOC-002", axiom |-> "Agreement cannot be forced",
      severity |-> "HIGH"] >>

medical ==
  << [key |-> "hippocratic", id |-> "MED-001", axiom |-> "First, do no harm",
      severity |-> "CRITICAL"],
     [key |-> "informed", id |-> "MED-002", axiom |-> "Informed consent required",
      severity |-> "HIGH"] >>

legal ==
  << [key |-> "burden", id |-> "LAW-001", axiom |-> "Innocent until proven guilty",
      severity |-> "CRITICAL"],
     [key |-> "evidence", id |-> "LAW-002", axiom |-> "Evidence must be admissible",
      severity |-> "HIGH"] >>

engineering ==
  << [key |-> "safety", id |-> "ENG-001", axiom |-> "Safety factor required",
      severity |-> "CRITICAL"],
     [key |-> "testing", id |-> "ENG-002", axiom |-> "Test before deployment",
      severity |-> "HIGH"] >>

\* this.domainSpecific[domain] || {}
domainSpecific(domain) ==
  CASE domain = "medical" -> medical
    [] domain = "legal" -> legal
    [] domain = "engineering" -> engineering
    [] OTHER -> <<>>

\* c.test(stmt, ctx) of the axiom with the given id
AxiomTest(id, stmt, ctx) ==
  Let(toLowerCase(stmt), LAMBDA s :
    CASE id = "TIME-001" -> HasChain(s, <<"effect", "cause">>)
                            \/ HasChain(s, <<"consequence", "before">>)
      [] id = "PHYS-001" -> HasChain(s, <<"create", "energy", "nothing">>)
                            \/ HasChain(s, <<"perpetual", "motion">>)
      [] id = "PHYS-002" -> NumOr(ctx, "actualLoad", 1) > 10
      [] id = "SOC-001" -> NumOr(ctx, "trustLayers", 1) > 5
      [] id = "SOC-002" -> HasChain(s, <<"force", "agree">>)
                           \/ HasChain(s, <<"make", "believe">>)
                           \/ HasChain(s, <<"ensure", "alignment">>)
      [] id = "MED-001" -> HasChain(s, <<"guarantee", "cure">>)
                           \/ HasChain(s, <<"miracle", "treatment">>)
      [] id = "MED-002" -> HasAny(s, {"don't need to know", "trust me", "just do it"})
      [] id = "LAW-001" -> HasAny(s, {"guilty until", "prove innocence"})
      [] id = "LAW-002" -> HasAny(s, {"hearsay is proof", "rumor confirms"})
      [] id = "ENG-001" -> HasAny(s, {"no margin needed", "exactly at limit"})
      [] id = "ENG-002" -> HasAny(s, {"deploy untested", "skip validation"})
      [] OTHER -> FALSE)

\* { ...a, ...b }: the entries of a, an entry of b replacing the one of a with
\* its key in place, the other entries of b after them.
SpreadMerge(a, b) ==
  LET keysA == {a[i].key : i \in DOMAIN a}
      over(e) == IF \E j \in DOMAIN b : b[j].key = e.key
                 THEN b[CHOOSE j \in DOMAIN b :
                          /\ b[j].key = e.key
                          /\ \A l \in DOMAIN b : b[l].key = e.key => l <= j]
                 ELSE e
      fresh(e) == e.key \notin keysA
  IN  [i \in DOMAIN a |-> over(a[i])] \o SelectSeq(b, fresh)

\* the constraints testAll evaluates for ctx
ActiveConstraints(ctx) ==
  LET domain == StrOr(ctx, "domain", "universal")
  IN  IF domain = "universal" THEN universal
      ELSE SpreadMerge(universal, domainSpecific(domain))

\* Math.exp(-n * 0.3) in units of 1/Unit, n = 0..7 at index n + 1
ExpTable == <<10000, 7408, 5488, 4066, 3012, 2231, 1653, 1225>>

Violation(c) ==
  [constraint |-> c.id, axiom |-> c.axiom, severity |-> c.severity,
   repair |-> "Reformulate to respect: " \o c.axiom]

testAll(stmt, ctx) ==
  LET constraints == ActiveConstraints(ctx)
      violated(c) == AxiomTest(c.id, stmt, ctx)
      hits == SelectSeq(constraints, violated)
      violations == [i \in DOMAIN hits |-> Violation(hits[i])]
      confidence == IF Len(violations) = 0 THEN Unit
                    ELSE ExpTable[Len(violations) + 1]
  IN  [violations |-> violations, overallConfidence |-> confidence]

(***************************************************************************)
(* MultiAgentClassifier                                                    *)
(***************************************************************************)
\* pattern.test(s.toLowerCase()) for the pattern of each agent
AgentPattern(name, stmt) ==
  Let(toLowerCase(stmt), LAMBDA s :
    CASE name = "Literalist" -> HasDigit(s) \/ HasAny(s, {"measure", "observe"})
      [] name = "Contextualist" -> HasAny(s, {"like", "as", "represent", "symbol"})
      [] name = "Skeptic" -> HasAny(s, {"always", "never", "everyone", "must"})
      [] name = "Visionary" -> HasAny(s, {"if", "could", "imagine", "might"}))

detectType(matches, type, conf) ==
  [type |-> IF matches THEN type ELSE "UNCLEAR",
   confidence |-> IF matches THEN conf ELSE 5000]

\* the agents with the Skeptic declared first
AgentsSkepticFirst(stmt) ==
  LET agent(name, type, conf) ==
        LET d == detectType(AgentPattern(name, stmt), type, conf)
        IN  [name |-> name, type |-> d.type, confidence |-> d.confidence]
  IN  << agent("Skeptic", "LIE", 9000),
         agent("Literalist", "FACT", 8500),
         agent("Contextualist", "SYMBOL", 7500),
         agent("Visionary", "IMAGINATION", 8000) >>

Agents(stmt) ==
  LET agent(name, type, conf) ==
        LET d == detectType(AgentPattern(name, stmt), type, conf)
        IN  [name |-> name, type |-> d.type, confidence |-> d.confidence]
  IN  << agent("Literalist", "FACT", 8500),
         agent("Contextualist", "SYMBOL", 7500),
         agent("Skeptic", "LIE", 9000),
         agent("Visionary", "IMAGINATION", 8000) >>

\* Object.entries(counts)[0] with the sort left out: the type of the first
\* agent and its count
ConsensusUnsorted(agents) ==
  <<agents[1].type,
    Cardinality({i \in DOMAIN agents : agents[i].type = agents[1].type})>>

\* the sort taken as one that puts the last of the equal counts first
ConsensusLastWins(agents) ==
  LET count(t) == Cardinality({i \in DOMAIN agents : agents[i].type = t})
      last(t) == CHOOSE i \in DOMAIN agents :
                   /\ agents[i].type = t
                   /\ \A j \in DOMAIN agents : agents[j].type = t => j <= i
      types == {agents[i].type : i \in DOMAIN agents}
      top == CHOOSE t \in types :
               \A u \in types :
                 \/ count(u) < count(t)
                 \/ count(u) = count(t) /\ last(u) <= last(t)
  IN  <<top, count(top)>>

\* Object.entries(counts).sort((a,b) => b[1] - a[1])[0]: the types in the order
\* the agents first name them, the sort stable, so the first type with the
\* largest count.
Consensus(agents) ==
  LET count(t) == Cardinality({i \in DOMAIN agents : agents[i].type = t})
      first(t) == CHOOSE i \in DOMAIN agents :
                    /\ agents[i].type = t
                    /\ \A j \in DOMAIN agents : agents[j].type = t => i <= j
      types == {agents[i].type : i \in DOMAIN agents}
      top == CHOOSE t \in types :
               \A u \in types :
                 \/ count(u) < count(t)
                 \/ count(u) = count(t) /\ first(t) <= first(u)
  IN  <<top, count(top)>>

classifyAgents(agents) ==
  Let(Consensus(agents), LAMBDA consensus :
    LET agree(a) == a.type = consensus[1]
        dissent(a) == a.type # consensus[1]
        agreeing == SelectSeq(agents, agree)
    IN  [type |-> consensus[1],
         confidence |->
           DivRound(SumSeq([i \in DOMAIN agreeing |-> agreeing[i].confidence]),
                    consensus[2]),
         agentResults |-> agents,
         consensusStrength |-> DivRound(consensus[2] * Unit, Len(agents)),
         dissentingOpinions |-> SelectSeq(agents, dissent)])

classify(stmt) == Let(Agents(stmt), classifyAgents)

(***************************************************************************)
(* SyntheticPhysicsEngine                                                  *)
(***************************************************************************)
\* Math.log2(n) in units of 1/Unit, n = 1..16 at index n
Log2Table == <<0, 10000, 15850, 20000, 23219, 25850, 28074, 30000,
               31699, 33219, 34594, 35850, 37004, 38074, 39069, 40000>>

\* -sum over the distinct words of p * log2(p), p = f / n, in units of 1/Unit
Entropy(words) ==
  LET n == Len(words)
      freq(w) == Cardinality({i \in DOMAIN words : words[i] = w})
      firsts == {i \in DOMAIN words : \A j \in 1..(i - 1) : words[j] # words[i]}
      term(i) == freq(words[i]) * (Log2Table[n] - Log2Table[freq(words[i])])
      RECURSIVE Sum(_)
      Sum(S) == IF S = {} THEN 0
                ELSE LET i == CHOOSE i \in S : TRUE IN term(i) + Sum(S \ {i})
  IN  DivRound(Sum(firsts), n)

\* the counts analyze takes from the text
PhysicsCounts(stmt) ==
  Let(toLowerCase(stmt), LAMBDA low :
    Let(SplitWhitespace(low), LAMBDA words :
      [words |-> Len(words),
       unique |-> Cardinality(Range(words)),
       length |-> Len(stmt),
       absolutes |-> MatchCount(low, <<"always", "never", "every", "all", "none">>),
       emotional |-> MatchCount(low, <<"must", "need", "should">>),
       qualifiers |-> MatchCount(low, <<"maybe", "perhaps", "could">>),
       entropy |-> Entropy(words)]))

PhysicsOfCounts(c) ==
  LET coherence == DivRound(c.unique * Unit, Max(c.words, 1))
      entropy == c.entropy
      weight == c.absolutes * 10 + c.emotional * 5 - c.qualifiers * 3
      impedance == DivRound(weight * 100 * Unit, Max(c.length, 1))
      impedance50 == DivRound(weight * 2 * Unit, Max(c.length, 1))
      resilience == Unit - DivRound((c.absolutes + c.emotional) * Unit, Max(c.words, 1))
      entropyNorm == DivRound(entropy * Unit, Max(Log2Table[c.words], Unit))
      total == coherence + (Unit - Min(Unit, entropyNorm)) + Max(0, resilience)
               + (Unit - Min(Unit, impedance50))
  IN  [coherence |-> [value |-> coherence, normalized |-> coherence],
       entropy |-> [value |-> entropy, normalized |-> entropyNorm],
       impedance |-> [value |-> impedance,
                      normalized |-> Min(Unit, Max(0, impedance50))],
       resilience |-> [value |-> resilience,
                       normalized |-> Max(0, Min(Unit, resilience))],
       soundness |-> (total * 100 + 2 * Unit) \div (4 * Unit)]

PhysicsAnalyze(stmt) == Let(PhysicsCounts(stmt), PhysicsOfCounts)

(***************************************************************************)
(* HumanMeterV5: integrity, status, repairs                                *)
(***************************************************************************)
\* the product of lines 286-293, in units of 1/Milli
RawIntegrity(input, classification, constraintAnalysis, physicsAnalysis) ==
  LET i0 == 100 * Milli
      i1 == DivRound(i0 * classification.confidence, Unit)
      i2 == DivRound(i1 * constraintAnalysis.overallConfidence, Unit)
      i3 == DivRound(i2 * physicsAnalysis.soundness, 100)
  IN  Let(toLowerCase(input), LAMBDA low :
        LET i4 == IF HasAny(low, {"love", "care", "protect"})
                  THEN DivRound(i3 * 105, 100) ELSE i3
        IN  IF HasAny(low, {"hate", "threat", "danger"})
            THEN DivRound(i4 * 95, 100) ELSE i4)

StatusOf(integrity) ==
  IF integrity >= 80 * Milli THEN "OPTIMAL"
  ELSE IF integrity >= 60 * Milli THEN "STABLE"
  ELSE IF integrity >= 40 * Milli THEN "STRESSED"
  ELSE IF integrity >= 20 * Milli THEN "CRITICAL"
  ELSE "FAILING"

\* Structural with the stored integrity left as the raw product
StructuralUnclamped(integrity) ==
  [integrity |-> integrity, status |-> StatusOf(integrity)]

\* the structural object of lines 295-298: the status is taken from the raw
\* product, the stored integrity is the product clamped.
Structural(integrity) ==
  [integrity |-> Max(0, Min(100 * Milli, integrity)),
   status |-> StatusOf(integrity)]

\* determineStatus with the consensus rule tried first
determineStatusConsensusFirst(classification, constraints, structural) ==
  IF 2 * classification.consensusStrength < Unit THEN "HALT_RECLASSIFY"
  ELSE IF \E i \in DOMAIN constraints.violations :
            constraints.violations[i].severity = "CRITICAL" THEN "HALT"
  ELSE IF structural.integrity < 20 * Milli THEN "HALT"
  ELSE IF structural.integrity < 50 * Milli THEN "PROCEED_SANDBOX"
  ELSE "PROCEED"

\* determineStatus with the test of line 326 left out
determineStatusNoConsensus(classification, constraints, structural) ==
  IF \E i \in DOMAIN constraints.violations :
       constraints.violations[i].severity = "CRITICAL" THEN "HALT"
  ELSE IF structural.integrity < 20 * Milli THEN "HALT"
  ELSE IF structural.integrity < 50 * Milli THEN "PROCEED_SANDBOX"
  ELSE "PROCEED"

determineStatus(classification, constraints, structural) ==
  IF \E i \in DOMAIN constraints.violations :
       constraints.violations[i].severity = "CRITICAL" THEN "HALT"
  ELSE IF structural.integrity < 20 * Milli THEN "HALT"
  ELSE IF 2 * classification.consensusStrength < Unit THEN "HALT_RECLASSIFY"
  ELSE IF structural.integrity < 50 * Milli THEN "PROCEED_SANDBOX"
  ELSE "PROCEED"

generateRepairs(classification, constraints, physics) ==
  LET fromViolations ==
        [i \in DOMAIN constraints.violations |->
           [priority |-> i, action |-> constraints.violations[i].constraint,
            instruction |-> constraints.violations[i].repair,
            severity |-> constraints.violations[i].severity]]
      n == Len(fromViolations)
      coherence == physics.soundness < 70 /\ 2 * physics.coherence.normalized < Unit
      rigidity == physics.soundness < 70 /\ 10 * physics.impedance.normalized > 6 * Unit
      r1 == IF coherence
            THEN <<[priority |-> n + 1, action |-> "COHERENCE",
                    instruction |-> "Add logical connectives"]>>
            ELSE <<>>
      r2 == IF rigidity
            THEN <<[priority |-> n + Len(r1) + 1, action |-> "RIGIDITY",
                    instruction |-> "Add qualifiers"]>>
            ELSE <<>>
  IN  fromViolations \o r1 \o r2

(***************************************************************************)
(* TemporalProjectionEngine                                                *)
(***************************************************************************)
\* Math.exp(-x), x >= 0 in units of 1/Unit, result in units of 1/Unit: the
\* product of exp(-i), exp(-d/10), exp(-c/100) and, for the rest r < 0.01,
\* 1 - r.
ExpInt == <<10000, 3679, 1353, 498, 183, 67, 25, 9, 3, 1>>
ExpTenth == <<10000, 9048, 8187, 7408, 6703, 6065, 5488, 4966, 4493, 4066>>
ExpHundredth == <<10000, 9900, 9802, 9704, 9608, 9512, 9418, 9324, 9231, 9139>>

ExpNeg(x) ==
  LET i == x \div Unit
      d == (x % Unit) \div 1000
      c == (x % 1000) \div 100
      r == x % 100
      e0 == IF i + 1 <= Len(ExpInt) THEN ExpInt[i + 1] ELSE 0
      e1 == DivRound(e0 * ExpTenth[d + 1], Unit)
      e2 == DivRound(e1 * ExpHundredth[c + 1], Unit)
  IN  DivRound(e2 * (Unit - r), Unit)

horizons ==
  << [name |-> "immediate", hours |-> 1, confidence |-> 9000],
     [name |-> "short", hours |-> 24, confidence |-> 7000],
     [name |-> "medium", hours |-> 168, confidence |-> 5000] >>

HoursText(h) == CASE h = 1 -> "1h" [] h = 24 -> "24h" [] h = 168 -> "168h"

\* prob * 100 of one horizon, in units of 1/Milli, before clamping
Probability100(analysis, h, decay) ==
  LET p0 == DivRound(ExpNeg(DivRound(decay * h.hours, 24))
                       * analysis.structural.integrity, Unit)
      p1 == IF analysis.classification.type = "FACT" THEN DivRound(p0 * 11, 10) ELSE p0
      p2 == IF analysis.classification.type = "LIE" THEN DivRound(p1 * 3, 10) ELSE p1
  IN  p2

\* project with Math.min(99, Math.max(1, ...)) of line 132 left out
projectUnclamped(analysis) ==
  LET decay == analysis.physics.entropy.normalized * 2
               + (Unit - analysis.physics.resilience.normalized)
  IN  [i \in DOMAIN horizons |->
         [horizon |-> horizons[i].name,
          timeRange |-> HoursText(horizons[i].hours),
          probability |->
            (Probability100(analysis, horizons[i], decay) + Milli \div 2) \div Milli,
          confidence |-> horizons[i].confidence]]

project(analysis) ==
  LET decay == analysis.physics.entropy.normalized * 2
               + (Unit - analysis.physics.resilience.normalized)
  IN  [i \in DOMAIN horizons |->
         [horizon |-> horizons[i].name,
          timeRange |-> HoursText(horizons[i].hours),
          probability |->
            (Min(99 * Milli, Max(Milli, Probability100(analysis, horizons[i], decay)))
               + Milli \div 2) \div Milli,
          confidence |-> horizons[i].confidence]]

(***************************************************************************)
(* ShadowTranslator                                                        *)
(***************************************************************************)
dict ==
  << [pattern |-> "ensure safety", bounded |-> FALSE, shadow |-> "ENFORCE CONTROL"],
     [pattern |-> "greater good", bounded |-> FALSE, shadow |-> "JUSTIFY AUTHORITY"],
     [pattern |-> "protect community", bounded |-> FALSE, shadow |-> "POLICE BOUNDARIES"],
     [pattern |-> "align(ment)?", bounded |-> TRUE, shadow |-> "SUBMIT/SUBMISSION"],
     [pattern |-> "consensus", bounded |-> FALSE, shadow |-> "SUPPRESS DISSENT"],
     [pattern |-> "we need to", bounded |-> FALSE, shadow |-> "I WANT TO"],
     [pattern |-> "must", bounded |-> TRUE, shadow |-> "WILL FORCE"] >>

\* \b at position i of s: between s[i-1] and s[i], exactly one is a word character
Boundary(s, i) ==
  LET before == i > 1 /\ IsWordChar(CharAt(s, i - 1))
      after == i <= Len(s) /\ IsWordChar(CharAt(s, i))
  IN  before # after

\* the length of the match of e.regex at position i of the lower-cased text
\* low, 0 if there is none
MatchLen(e, low, i) ==
  LET lit(p) == IF At(low, p, i) /\ (e.bounded => Boundary(low, i)
                                       /\ Boundary(low, i + Len(p)))
                THEN Len(p) ELSE 0
  IN  IF e.pattern = "align(ment)?"
      THEN (IF lit("alignment") > 0 THEN lit("alignment") ELSE lit("align"))
      ELSE lit(e.pattern)

\* shadow.replace(e.regex, ...) from position from on: <<the text with every
\* match replaced, the number of replacements>>; low is the text lower-cased
RECURSIVE ReplaceFrom(_, _, _, _)
ReplaceFrom(e, text, low, from) ==
  LET hit(i) == MatchLen(e, low, i) > 0 IN
  IF \A i \in from..Len(text) : ~hit(i) THEN <<SubSeq(text, from, Len(text)), 0>>
  ELSE LET i == CHOOSE i \in from..Len(text) : hit(i) /\ \A j \in from..(i - 1) : ~hit(j)
           rest == ReplaceFrom(e, text, low, i + MatchLen(e, low, i))
       IN  <<SubSeq(text, from, i - 1) \o "[" \o e.shadow \o "]" \o rest[1], rest[2] + 1>>

\* the forEach of translate over dict[k..]: later entries act on the text the
\* earlier ones left
RECURSIVE TranslateFrom(_, _, _)
TranslateFrom(k, shadow, detections) ==
  IF k > Len(dict) THEN <<shadow, detections>>
  ELSE Let(toLowerCase(shadow), LAMBDA low :
         Let(ReplaceFrom(dict[k], shadow, low, 1), LAMBDA r :
           TranslateFrom(k + 1, r[1], detections + r[2])))

translate(text) ==
  Let(TranslateFrom(1, text, 0), LAMBDA r :
    [original |-> text, shadow |-> r[1], detections |-> r[2],
     riskLevel |-> IF r[2] > 2 THEN "HIGH" ELSE IF r[2] > 0 THEN "MODERATE" ELSE "LOW"])

(***************************************************************************)
(* Exceptions: a call completes normally with a value or abruptly with an  *)
(* error.                                                                  *)
(***************************************************************************)
Return(v) == [threw |-> FALSE, value |-> v]
Throw(e) == [threw |-> TRUE, error |-> e]

(***************************************************************************)
(* ConsequenceSimulator                                                    *)
(***************************************************************************)
\* the default of the parameter iterations
Iterations == 100

\* the outcome of a trial with the branch of line 248 left out
OutcomeNoDegraded(baseIntegrity) ==
  IF baseIntegrity < 30 * Milli THEN "CATASTROPHIC_FAILURE"
  ELSE IF baseIntegrity < 50 * Milli THEN "PARTIAL_FAILURE"
  ELSE "SUCCESS"

Outcome(baseIntegrity) ==
  IF baseIntegrity < 30 * Milli THEN "CATASTROPHIC_FAILURE"
  ELSE IF baseIntegrity < 50 * Milli THEN "PARTIAL_FAILURE"
  ELSE IF baseIntegrity < 70 * Milli THEN "DEGRADED_SUCCESS"
  ELSE "SUCCESS"

\* the entries left in the order Object.entries gives them
Unsorted(q) == q

\* Array.prototype.sort((a, b) => b.probability - a.probability), stable
RECURSIVE SortByProbability(_)
SortByProbability(q) ==
  IF Len(q) = 0 THEN <<>>
  ELSE LET m == CHOOSE m \in DOMAIN q :
                  /\ \A j \in DOMAIN q : q[j].probability <= q[m].probability
                  /\ \A j \in 1..(m - 1) : q[j].probability < q[m].probability
       IN  <<q[m]>> \o SortByProbability(SubSeq(q, 1, m - 1) \o SubSeq(q, m + 1, Len(q)))

\* simulate(analysis, iterations); noise[i] is the value (Math.random() - 0.5) * 20
\* of trial i, in units of 1/Milli.  Each trial reads analysis.structural.integrity:
\* with no structural property on analysis the first trial throws a TypeError.
simulate(analysis, iterations, noise) ==
  IF iterations > 0 /\ ~HasField(analysis, "structural")
  THEN Throw("TypeError")
  ELSE
    LET outcomes == [i \in 1..iterations |->
                       Outcome(analysis.structural.integrity + noise[i])]
        firsts == SelectSeq([i \in 1..iterations |-> i],
                            LAMBDA i : \A j \in 1..(i - 1) : outcomes[j] # outcomes[i])
        count(o) == Cardinality({i \in 1..iterations : outcomes[i] = o})
        entries == [k \in DOMAIN firsts |->
                      [outcome |-> outcomes[firsts[k]],
                       probability |-> (count(outcomes[firsts[k]]) * 100 * 2 + iterations)
                                         \div (2 * iterations),
                       count |-> count(outcomes[firsts[k]])]]
    IN  Return(SortByProbability(entries))

(***************************************************************************)
(* JavaScript values held in history and the JSON text of export/import.   *)
(* A value is a tagged tree; a JSON text is either not parseable or a tree *)
(* of tokens.  Numbers are finite fixed-point integers or Infinity.        *)
(***************************************************************************)
Undefined == [t |-> "undefined"]
Null == [t |-> "null"]
Infinity == [t |-> "Infinity"]
Num(n) == [t |-> "number", n |-> n]
Str(s) == [t |-> "string", s |-> s]
Obj(o) == [t |-> "object", o |-> o]
Arr(a) == [t |-> "array", a |-> a]

\* v.k: a TypeError on null and undefined, undefined where there is no such
\* property
Get(v, k) ==
  IF v.t \in {"null", "undefined"} THEN Throw("TypeError")
  ELSE IF v.t = "object" /\ HasField(v.o, k) THEN Return(v.o[k])
  ELSE Return(Undefined)

\* a === b for a primitive b
StrictEquals(a, b) == a.t \notin {"object", "array"} /\ a = b

\* Boolean(v)
Truthy(v) ==
  CASE v.t \in {"undefined", "null"} -> FALSE
    [] v.t = "number" -> v.n # 0
    [] v.t = "string" -> v.s # ""
    [] OTHER -> TRUE

\* tokens of a JSON text
JNull == [j |-> "null"]
JNum(n) == [j |-> "number", n |-> n]
\* a number literal beyond the range of a double, such as 1e400
JHuge == [j |-> "huge"]
JStr(s) == [j |-> "string", s |-> s]
JObj(m) == [j |-> "object", m |-> m]
JArr(a) == [j |-> "array", a |-> a]

JsonText(doc) == [json |-> doc]
BadText(chars) == [text |-> chars]

RECURSIVE ParseDoc(_)
ParseDoc(d) ==
  CASE d.j = "null" -> Null
    [] d.j = "number" -> Num(d.n)
    [] d.j = "huge" -> Infinity
    [] d.j = "string" -> Str(d.s)
    [] d.j = "object" -> Obj([k \in DOMAIN d.m |-> ParseDoc(d.m[k])])
    [] d.j = "array" -> Arr([i \in DOMAIN d.a |-> ParseDoc(d.a[i])])

\* JSON.parse(jsonStr)
JSONparse(jsonStr) ==
  IF HasField(jsonStr, "json") THEN Return(ParseDoc(jsonStr.json))
  ELSE Throw("SyntaxError")

\* the token tree of JSON.stringify(v): a property whose value is undefined is
\* left out, undefined in an array and a number that is not finite become null
RECURSIVE StringifyDoc(_)
StringifyDoc(v) ==
  CASE v.t = "null" -> JNull
    [] v.t = "undefined" -> JNull
    [] v.t = "Infinity" -> JNull
    [] v.t = "number" -> JNum(v.n)
    [] v.t = "string" -> JStr(v.s)
    [] v.t = "object" ->
         JObj([k \in {k \in DOMAIN v.o : v.o[k].t # "undefined"} |->
                 StringifyDoc(v.o[k])])
    [] v.t = "array" -> JArr([i \in DOMAIN v.a |-> StringifyDoc(v.a[i])])

\* JSON.stringify(v, null, 2) for a v that is not undefined
JSONstringify(v) == JsonText(StringifyDoc(v))

(***************************************************************************)
(* DriftTracker and PatternRecognizer, over a history of JavaScript values *)
(***************************************************************************)
\* v.k1.k2
Get2(v, k1, k2) ==
  LET g == Get(v, k1) IN IF g.threw THEN g ELSE Get(g.value, k2)

\* the default of the parameter window
DriftWindow == 5

\* lines 180-189 of calculate, for records whose integrity is a finite number
DriftOf(h, window) ==
  LET n == Min(window, Len(h))
      recent == SubSeq(h, Len(h) - n + 1, Len(h))
      integrity(i) == Get2(recent[i], "structural", "integrity")
  IN  IF \E i \in DOMAIN recent : integrity(i).threw THEN Throw("TypeError")
      ELSE
        LET total == SumSeq([i \in DOMAIN recent |-> integrity(i).value.n])
            trend == integrity(n).value.n - integrity(1).value.n
        IN  Return(Obj(
              [avgIntegrity |-> Num(DivRound(total, n)),
               trend |-> Str(IF trend > 5 * Milli THEN "IMPROVING"
                             ELSE IF trend < -5 * Milli THEN "DEGRADING"
                             ELSE "STABLE"),
               trendValue |-> Num(trend),
               warning |-> IF total < 60 * Milli * n /\ trend < 0
                           THEN Str("CRITICAL_DECAY") ELSE Null]))

\* calculate with the guard of line 178 one record later
calculateFromThree(h, window) ==
  IF Len(h) < 3 THEN Return(Null) ELSE DriftOf(h, window)

\* calculate with the slice of line 180 left out: every record is used
calculateWholeHistory(h, window) ==
  IF Len(h) < 2 THEN Return(Null) ELSE DriftOf(h, Len(h))

\* calculate(history, window)
calculate(h, window) ==
  IF Len(h) < 2 THEN Return(Null) ELSE DriftOf(h, window)

\* the inner forEach of line 205 stopped after the first violation of a record
ViolationIdsFirstOnly(a) ==
  LET vs == Get2(a, "constraints", "violations") IN
  IF vs.threw \/ vs.value.t # "array" THEN Throw("TypeError")
  ELSE IF \E i \in DOMAIN vs.value.a : Get(vs.value.a[i], "constraint").threw
       THEN Throw("TypeError")
       ELSE Return([i \in DOMAIN vs.value.a \cap {1} |->
                      Get(vs.value.a[i], "constraint").value])

\* the constraint ids of a.constraints.violations, in order
ViolationIds(a) ==
  LET vs == Get2(a, "constraints", "violations") IN
  IF vs.threw \/ vs.value.t # "array" THEN Throw("TypeError")
  ELSE IF \E i \in DOMAIN vs.value.a : Get(vs.value.a[i], "constraint").threw
       THEN Throw("TypeError")
       ELSE Return([i \in DOMAIN vs.value.a |-> Get(vs.value.a[i], "constraint").value])

RECURSIVE Flatten(_)
Flatten(qq) == IF Len(qq) = 0 THEN <<>> ELSE Head(qq) \o Flatten(Tail(qq))

\* recognize with the decline of line 225 taken over the last three records
recognizeRecentDecline(h) ==
  IF Len(h) < 3 THEN Return(Arr(<<>>))
  ELSE IF \E i \in DOMAIN h :
            \/ ViolationIds(h[i]).threw
            \/ Get2(h[i], "classification", "type").threw
            \/ Get2(h[i], "structural", "integrity").threw
  THEN Throw("TypeError")
  ELSE
    LET ids == Flatten([i \in DOMAIN h |-> ViolationIds(h[i]).value])
        count(id) == Cardinality({i \in DOMAIN ids : ids[i] = id})
        \* Object.entries(violations): the ids in the order of their first tally
        firsts == SelectSeq([i \in DOMAIN ids |-> i],
                            LAMBDA i : \A j \in 1..(i - 1) : ids[j] # ids[i])
        recurring == SelectSeq(firsts, LAMBDA i : count(ids[i]) >= 3)
        p1 == [k \in DOMAIN recurring |->
                 Obj([type |-> Str("RECURRING_VIOLATION"), detail |-> ids[recurring[k]],
                      frequency |-> Num(count(ids[recurring[k]])),
                      severity |-> Str("HIGH")])]
        types == [i \in DOMAIN h |-> Get2(h[i], "classification", "type").value]
        p2 == IF Cardinality(Range(types)) = Len(types) /\ Len(types) >= 5
              THEN <<Obj([type |-> Str("CLASSIFICATION_DRIFT"),
                          detail |-> Str("No consensus across analyses"),
                          severity |-> Str("MODERATE")])>>
              ELSE <<>>
        integrities == [i \in DOMAIN h |-> Get2(h[i], "structural", "integrity").value.n]
        declining == \A i \in (Len(integrities) - 1)..Len(integrities) :
                       integrities[i] < integrities[i - 1]
        p3 == IF declining /\ Len(integrities) >= 3
              THEN <<Obj([type |-> Str("PROGRESSIVE_DECAY"),
                          detail |-> Str("Consistent integrity decline"),
                          severity |-> Str("CRITICAL")])>>
              ELSE <<>>
    IN  Return(Arr(p1 \o p2 \o p3))

\* recognize(history), for records whose integrity is a finite number
recognize(h) ==
  IF Len(h) < 3 THEN Return(Arr(<<>>))
  ELSE IF \E i \in DOMAIN h :
            \/ ViolationIds(h[i]).threw
            \/ Get2(h[i], "classification", "type").threw
            \/ Get2(h[i], "structural", "integrity").threw
  THEN Throw("TypeError")
  ELSE
    LET ids == Flatten([i \in DOMAIN h |-> ViolationIds(h[i]).value])
        count(id) == Cardinality({i \in DOMAIN ids : ids[i] = id})
        \* Object.entries(violations): the ids in the order of their first tally
        firsts == SelectSeq([i \in DOMAIN ids |-> i],
                            LAMBDA i : \A j \in 1..(i - 1) : ids[j] # ids[i])
        recurring == SelectSeq(firsts, LAMBDA i : count(ids[i]) >= 3)
        p1 == [k \in DOMAIN recurring |->
                 Obj([type |-> Str("RECURRING_VIOLATION"), detail |-> ids[recurring[k]],
                      frequency |-> Num(count(ids[recurring[k]])),
                      severity |-> Str("HIGH")])]
        types == [i \in DOMAIN h |-> Get2(h[i], "classification", "type").value]
        p2 == IF Cardinality(Range(types)) = Len(types) /\ Len(types) >= 5
              THEN <<Obj([type |-> Str("CLASSIFICATION_DRIFT"),
                          detail |-> Str("No consensus across analyses"),
                          severity |-> Str("MODERATE")])>>
              ELSE <<>>
        integrities == [i \in DOMAIN h |-> Get2(h[i], "structural", "integrity").value.n]
        declining == \A i \in 2..Len(integrities) : integrities[i] < integrities[i - 1]
        p3 == IF declining /\ Len(integrities) >= 3
              THEN <<Obj([type |-> Str("PROGRESSIVE_DECAY"),
                          detail |-> Str("Consistent integrity decline"),
                          severity |-> Str("CRITICAL")])>>
              ELSE <<>>
    IN  Return(Arr(p1 \o p2 \o p3))

(***************************************************************************)
(* The analysis record as a JavaScript value                               *)
(***************************************************************************)
NumFields(r) == Obj([k \in DOMAIN r |-> Num(r[k])])
StrFields(r) == Obj([k \in DOMAIN r |-> Str(r[k])])
ArrOf(q, Conv(_)) == Arr([i \in DOMAIN q |-> Conv(q[i])])

JSContext(ctx) ==
  Obj([k \in DOMAIN ctx |-> IF k = "domain" THEN Str(ctx[k]) ELSE Num(ctx[k])])

JSAgent(a) ==
  Obj([name |-> Str(a.name), type |-> Str(a.type), confidence |-> Num(a.confidence)])

JSClassification(c) ==
  Obj([type |-> Str(c.type), confidence |-> Num(c.confidence),
       agentResults |-> ArrOf(c.agentResults, JSAgent),
       consensusStrength |-> Num(c.consensusStrength),
       dissentingOpinions |-> ArrOf(c.dissentingOpinions, JSAgent)])

JSConstraints(c) ==
  Obj([violations |-> ArrOf(c.violations, StrFields),
       overallConfidence |-> Num(c.overallConfidence)])

JSPhysics(p) ==
  Obj([coherence |-> NumFields(p.coherence), entropy |-> NumFields(p.entropy),
       impedance |-> NumFields(p.impedance), resilience |-> NumFields(p.resilience),
       soundness |-> Num(p.soundness)])

JSShadow(s) ==
  Obj([original |-> Str(s.original), shadow |-> Str(s.shadow),
       detections |-> Num(s.detections), riskLevel |-> Str(s.riskLevel)])

JSStructural(s) == Obj([integrity |-> Num(s.integrity), status |-> Str(s.status)])

JSProjection(p) ==
  Obj([horizon |-> Str(p.horizon), timeRange |-> Str(p.timeRange),
       probability |-> Num(p.probability), confidence |-> Num(p.confidence)])

JSRepair(r) ==
  Obj([k \in DOMAIN r |-> IF k = "priority" THEN Num(r[k]) ELSE Str(r[k])])

JSConsequence(c) ==
  Obj([outcome |-> Str(c.outcome), probability |-> Num(c.probability),
       count |-> Num(c.count)])

\* new Date(t).toISOString(), t the clock reading
toISOString(t) == "T" \o ToString(t)

\* obj.k = v
SetField(obj, k, v) ==
  Obj([f \in DOMAIN obj.o \cup {k} |-> IF f = k THEN v ELSE obj.o[f]])

(***************************************************************************)
(* HumanMeterV5: history operations                                        *)
(***************************************************************************)
\* this.history.find(a => a.id === id), from index i on
RECURSIVE FindFrom(_, _, _)
FindFrom(h, i, id) ==
  IF i > Len(h) THEN Return(Undefined)
  ELSE LET g == Get(h[i], "id") IN
       IF g.threw THEN g
       ELSE IF StrictEquals(g.value, id) THEN Return(h[i])
       ELSE FindFrom(h, i + 1, id)

find(h, id) == FindFrom(h, 1, id)

exportAnalysis(h, id) ==
  LET analysis == find(h, id) IN
  IF analysis.threw THEN analysis
  ELSE IF ~Truthy(analysis.value) THEN Return(Null)
  ELSE Return(JSONstringify(analysis.value))

\* importAnalysis with unshift in the place of push
importAnalysisUnshift(h, jsonStr) ==
  LET analysis == JSONparse(jsonStr) IN
  IF analysis.threw THEN [threw |-> FALSE, value |-> Null, history |-> h]
  ELSE [threw |-> FALSE, value |-> analysis.value, history |-> <<analysis.value>> \o h]

\* importAnalysis that computes the drift of the imported record anew
importAnalysisTracking(h, jsonStr) ==
  LET analysis == JSONparse(jsonStr) IN
  IF analysis.threw THEN [threw |-> FALSE, value |-> Null, history |-> h]
  ELSE
    LET drift == calculate(Append(h, analysis.value), DriftWindow)
        tracked == IF analysis.value.t = "object" /\ ~drift.threw
                   THEN SetField(analysis.value, "drift", drift.value)
                   ELSE analysis.value
    IN  [threw |-> FALSE, value |-> tracked, history |-> Append(h, tracked)]

\* the result tells what the call returns and the history it leaves
importAnalysis(h, jsonStr) ==
  LET analysis == JSONparse(jsonStr) IN
  IF analysis.threw THEN [threw |-> FALSE, value |-> Null, history |-> h]
  ELSE [threw |-> FALSE, value |-> analysis.value, history |-> Append(h, analysis.value)]

compareAnalyses(h, ids) ==
  LET found == [i \in DOMAIN ids |-> find(h, ids[i])] IN
  IF \E i \in DOMAIN found : found[i].threw THEN Throw("TypeError")
  ELSE Return(SelectSeq([i \in DOMAIN found |-> found[i].value], Truthy))

(***************************************************************************)
(* Bounds and inputs                                                       *)
(***************************************************************************)
MaxHistory == 3
MaxClock == 1

ScenarioA == "This device creates infinite energy from nothing"

Texts ==
  { "", "   ", ScenarioA, "could1as", "We MUST always protect all",
    "maybe", "a a b", "1 as if maybe perhaps", "I hate danger and love care",
    "we must ensure safety never skip validation", "measure 42 like if",
    "trust me" }

Contexts ==
  { EmptyContext,
    [domain |-> "engineering"],
    [domain |-> "medical", actualLoad |-> 20],
    [domain |-> "universal", actualLoad |-> 1, trustLayers |-> 9,
     verificationLevel |-> 5000],
    [actualLoad |-> 11, trustLayers |-> 6],
    [domain |-> "finance", trustLayers |-> 0] }

\* the (text, context) pairs of a session
SessionInputs ==
  { <<"", EmptyContext>>,
    <<ScenarioA, [domain |-> "engineering"]>>,
    <<"could1as", [domain |-> "medical", actualLoad |-> 20]>> }

\* random values of a simulation run: the first k trials draw a, the rest b
Draws(k, a, b) == [i \in 1..Iterations |-> IF i <= k THEN a ELSE b]

NoiseDraws == { Draws(0, 0, 0), Draws(50, -10 * Milli, 10 * Milli - 1) }

\* the JSON text of a record of an earlier session, abridged
RecordDoc(id, stamp, integrity) ==
  JObj([id |-> JNum(id),
        timestamp |-> JStr(toISOString(stamp)),
        input |-> JStr("hello"),
        context |-> JObj(<<>>),
        classification |-> JObj([type |-> JStr("UNCLEAR"), confidence |-> JNum(5000),
                                 consensusStrength |-> JNum(Unit)]),
        constraints |-> JObj([violations |-> JArr(<<>>),
                              overallConfidence |-> JNum(Unit)]),
        physics |-> JObj([soundness |-> JNum(100)]),
        shadow |-> JObj([detections |-> JNum(0), riskLevel |-> JStr("LOW")]),
        structural |-> JObj([integrity |-> integrity, status |-> JStr("STABLE")]),
        temporal |-> JObj([projections |-> JArr(<<>>)]),
        status |-> JStr("PROCEED"),
        repairProtocols |-> JArr(<<>>),
        consequences |-> JArr(<<>>),
        drift |-> JNull,
        patterns |-> JArr(<<>>)])

\* the keys of an analysis record
RecordKeys ==
  { "id", "timestamp", "input", "context", "classification", "constraints",
    "physics", "shadow", "structural", "temporal", "status", "repairProtocols",
    "consequences", "drift", "patterns" }

NotJson == BadText("not json")
NumberText == JsonText(JNum(5))
NullText == JsonText(JNull)
EmptyObjectText == JsonText(JObj(<<>>))
RecordA == JsonText(RecordDoc(1, 1, JNum(72500)))
\* another record with the id of RecordA
RecordB == JsonText(RecordDoc(1, 2, JNum(31 * Milli)))
\* a record whose integrity is out of range
RecordC == JsonText(RecordDoc(2, 2, JNum(150 * Milli)))

ImportTexts ==
  { NotJson, NumberText, NullText, EmptyObjectText, RecordA, RecordB, RecordC }

IdArgs == { Num(1), Num(2), Num(7), Undefined }

IdLists == { <<>>, <<Num(2), Num(1)>>, <<Num(1), Num(7), Num(1)>> }

\* the texts an export of the current history can put on the clipboard
Exported(h) ==
  { exportAnalysis(h, id).value :
      id \in {id \in IdArgs : LET e == exportAnalysis(h, id)
                              IN  ~e.threw /\ HasField(e.value, "json")} }

(***************************************************************************)
(* HumanMeterV5.analyze                                                    *)
(***************************************************************************)
\* lines 281-312 of analyze: all that precedes the simulation
Pipeline(input, context) ==
  Let(<<classify(input), testAll(input, context), PhysicsAnalyze(input)>>, LAMBDA a :
    LET classification == a[1]
        constraintAnalysis == a[2]
        physicsAnalysis == a[3]
        shadowAnalysis == translate(input)
        integrity == RawIntegrity(input, classification, constraintAnalysis,
                                  physicsAnalysis)
    IN  Let(Structural(integrity), LAMBDA structural :
          [classification |-> classification,
           constraints |-> constraintAnalysis,
           physics |-> physicsAnalysis,
           shadow |-> shadowAnalysis,
           integrity |-> integrity,
           structural |-> structural,
           projections |-> project([classification |-> classification,
                                    physics |-> physicsAnalysis,
                                    structural |-> structural]),
           status |-> determineStatus(classification, constraintAnalysis, structural),
           repairs |-> generateRepairs(classification, constraintAnalysis,
                                       physicsAnalysis)]))

\* Pipeline over the inputs of the model, evaluated once
PipelineTable == {<<in, Pipeline(in[1], in[2])>> : in \in Texts \X Contexts}

PipelineOf(input, context) ==
  IF <<input, context>> \in Texts \X Contexts THEN (CHOOSE e \in PipelineTable : e[1] = <<input, context>>)[2]
  ELSE Pipeline(input, context)

\* analyze(input, context) on history h.  id is the reading of Date.now(),
\* stamp the one of new Date(), noise the random values of the simulation.
\* The result tells how the call completes and the history it leaves.
\* the record analyze builds at lines 300-314
AnalysisRecord(id, stamp, input, context, p, consequences) ==
  Obj([id |-> Num(id),
       timestamp |-> Str(toISOString(stamp)),
       input |-> Str(input),
       context |-> JSContext(context),
       classification |-> JSClassification(p.classification),
       constraints |-> JSConstraints(p.constraints),
       physics |-> JSPhysics(p.physics),
       shadow |-> JSShadow(p.shadow),
       structural |-> JSStructural(p.structural),
       temporal |-> Obj([projections |-> ArrOf(p.projections, JSProjection)]),
       status |-> Str(p.status),
       repairProtocols |-> ArrOf(p.repairs, JSRepair),
       consequences |-> ArrOf(consequences, JSConsequence)])

\* lines 316-320: the record is pushed, then drift and patterns are computed
\* over the history that holds it and written to it; the record in history is
\* the object the assignments write to
PushAndTrack(h, analysis) ==
  Let(calculate(Append(h, analysis), DriftWindow), LAMBDA drift :
    IF drift.threw
    THEN [threw |-> TRUE, error |-> drift.error, history |-> Append(h, analysis)]
    ELSE
      Let(SetField(analysis, "drift", drift.value), LAMBDA withDrift :
        Let(recognize(Append(h, withDrift)), LAMBDA patterns :
          IF patterns.threw
          THEN [threw |-> TRUE, error |-> patterns.error,
                history |-> Append(h, withDrift)]
          ELSE Let(SetField(withDrift, "patterns", patterns.value), LAMBDA done :
                 [threw |-> FALSE, value |-> done, history |-> Append(h, done)]))))

analyze(h, id, stamp, input, context, noise) ==
  Let(PipelineOf(input, context), LAMBDA p :
    \* line 313 hands the structural object itself to simulate
    Let(simulate(p.structural, Iterations, noise), LAMBDA consequences :
      IF consequences.threw
      THEN [threw |-> TRUE, error |-> consequences.error, history |-> h]
      ELSE Let(AnalysisRecord(id, stamp, input, context, p, consequences.value),
               LAMBDA analysis : PushAndTrack(h, analysis))))

(***************************************************************************)
(* The engine of one session                                               *)
(***************************************************************************)
Init == history = <<>> /\ now = 0 /\ call = [op |-> "new"]

Analyze(input, context) ==
  \E noise \in NoiseDraws, stamp \in now..Min(now + 1, MaxClock) :
    LET r == analyze(history, now, stamp, input, context, noise) IN
    /\ Len(r.history) <= MaxHistory
    /\ history' = r.history
    /\ now' = stamp
    /\ call' = [op |-> "analyze", arg |-> <<input, context>>, threw |-> r.threw,
                ret |-> IF r.threw THEN Str(r.error) ELSE r.value]

ImportAnalysis(jsonStr) ==
  LET r == importAnalysis(history, jsonStr) IN
  /\ Len(r.history) <= MaxHistory
  /\ history' = r.history
  /\ call' = [op |-> "importAnalysis", arg |-> jsonStr, threw |-> r.threw,
              ret |-> r.value]
  /\ UNCHANGED now

ExportAnalysis(id) ==
  LET r == exportAnalysis(history, id) IN
  /\ call' = [op |-> "exportAnalysis", arg |-> id, threw |-> r.threw,
              ret |-> IF r.threw THEN Str(r.error) ELSE r.value]
  /\ UNCHANGED <<history, now>>

CompareAnalyses(ids) ==
  LET r == compareAnalyses(history, ids) IN
  /\ call' = [op |-> "compareAnalyses", arg |-> ids, threw |-> r.threw,
              ret |-> IF r.threw THEN Str(r.error) ELSE Arr(r.value)]
  /\ UNCHANGED <<history, now>>

\* time passes
Tick ==
  /\ now < MaxClock
  /\ now' = now + 1
  /\ UNCHANGED <<history, call>>

Next ==
  \/ \E in \in SessionInputs : Analyze(in[1], in[2])
  \/ \E s \in ImportTexts \cup Exported(history) : ImportAnalysis(s)
  \/ \E id \in IdArgs : ExportAnalysis(id)
  \/ \E ids \in IdLists : CompareAnalyses(ids)
  \/ Tick

Spec == Init /\ [][Next]_vars

(***************************************************************************)
(* The pure steps of analyze, applied to bounded inputs                    *)
(***************************************************************************)
\* lines 281-298: the raw product and the structural object built from it
ApplyStructural(input, context) ==
  LET p == PipelineOf(input, context)
  IN  /\ call' = [op |-> "structural", arg |-> <<input, context>>, threw |-> FALSE,
                  ret |-> [raw |-> p.integrity, structural |-> p.structural]]
      /\ UNCHANGED <<history, now>>

Severities == { <<>>, <<"CRITICAL">>, <<"HIGH">>, <<"MODERATE", "CRITICAL">>,
                <<"HIGH", "MODERATE">> }

ConsensusStrengths == { 2500, 5000, 7500, 10000 }

Integrities == { 0, 20 * Milli - 1, 20 * Milli, 50 * Milli - 1, 50 * Milli, 100 * Milli }

ApplyDetermineStatus(severities, strength, integrity) ==
  LET classification == [consensusStrength |-> strength]
      constraints == [violations |-> [i \in DOMAIN severities |->
                                        [severity |-> severities[i]]]]
      structural == [integrity |-> integrity, status |-> StatusOf(integrity)]
  IN  /\ call' = [op |-> "determineStatus",
                  arg |-> <<classification, constraints, structural>>,
                  threw |-> FALSE,
                  ret |-> determineStatus(classification, constraints, structural)]
      /\ UNCHANGED <<history, now>>

SimIntegrities == { 0, 20 * Milli - 1, 25 * Milli, 30 * Milli, 40 * Milli - 1,
                    40 * Milli, 45 * Milli, 60 * Milli, 65 * Milli, 75 * Milli,
                    80 * Milli, 100 * Milli }

\* Math.random() lies in [0, 1), so a noise value lies in [-10, 10)
SimDraws ==
  { Draws(k, d[1], d[2]) :
      k \in {0, 1, 50, 99},
      d \in { <<0, 0>>, <<-10 * Milli, 10 * Milli - 1>>,
              <<10 * Milli - 1, -10 * Milli>> } }

\* one text for each way the four patterns of the agents can match or not
ClassifierTexts ==
  { (IF m[1] THEN "42" ELSE "x") \o (IF m[2] THEN " like" ELSE " y")
      \o (IF m[3] THEN " Never" ELSE " z") \o (IF m[4] THEN " might" ELSE " w") :
    m \in [1..4 -> BOOLEAN] }

\* classify over the inputs of the model, evaluated once
ClassifyTable == { <<t, classify(t)>> : t \in ClassifierTexts \cup Texts }

ApplyClassify(stmt) ==
  /\ call' = [op |-> "classify", arg |-> stmt, threw |-> FALSE,
              ret |-> (CHOOSE e \in ClassifyTable : e[1] = stmt)[2]]
  /\ UNCHANGED <<history, now>>

\* lines 83-109: the physics of a text
ApplyPhysics(stmt) ==
  /\ call' = [op |-> "physics", arg |-> stmt, threw |-> FALSE,
              ret |-> PipelineOf(stmt, EmptyContext).physics]
  /\ UNCHANGED <<history, now>>

\* simulate over the inputs of the model, evaluated once
SimulateTable ==
  { <<in, simulate([structural |-> [integrity |-> in[1]]], Iterations, in[2])>> :
      in \in SimIntegrities \X SimDraws }

SimulateOf(integrity, noise) ==
  (CHOOSE e \in SimulateTable : e[1] = <<integrity, noise>>)[2]

\* simulate applied to an analysis with the given integrity
ApplySimulate(integrity, noise) ==
  LET r == SimulateOf(integrity, noise)
  IN  /\ call' = [op |-> "simulate", arg |-> <<integrity, noise>>, threw |-> r.threw,
                  ret |-> IF r.threw THEN r.error ELSE r.value]
      /\ UNCHANGED <<history, now>>

\* the arguments of project: { classification, physics, structural } of
\* line 311, over categories, entropies, resiliences and integrities, and
\* over confidences and coherences as well
ProjectInputs ==
  { [classification |-> [type |-> x[1], confidence |-> x[5]],
     physics |-> [entropy |-> [normalized |-> x[2]],
                  resilience |-> [normalized |-> x[3]],
                  coherence |-> [normalized |-> x[6]]],
     structural |-> [integrity |-> x[4], status |-> StatusOf(x[4])]] :
    x \in {"FACT", "LIE", "UNCLEAR"} \X {0, Unit \div 2} \X {Unit \div 2, Unit}
            \X {0, 50 * Milli, 100 * Milli} \X {5000, 8500} \X {5000, Unit} }

\* project over the inputs of the model, evaluated once
ProjectTable == { <<a, project(a)>> : a \in ProjectInputs }

\* project applied to an analysis
ApplyProject(analysis) ==
  /\ call' = [op |-> "project", arg |-> analysis, threw |-> FALSE,
              ret |-> (CHOOSE e \in ProjectTable : e[1] = analysis)[2]]
  /\ UNCHANGED <<history, now>>

NextPure ==
  \/ \E input \in Texts, context \in Contexts : ApplyStructural(input, context)
  \/ \E severities \in Severities, strength \in ConsensusStrengths,
        integrity \in Integrities :
       ApplyDetermineStatus(severities, strength, integrity)
  \/ \E integrity \in SimIntegrities, noise \in SimDraws : ApplySimulate(integrity, noise)
  \/ \E stmt \in ClassifierTexts \cup Texts : ApplyClassify(stmt)
  \/ \E stmt \in Texts : ApplyPhysics(stmt)
  \/ \E analysis \in ProjectInputs : ApplyProject(analysis)

SpecPure == Init /\ [][NextPure]_vars
(***************************************************************************)
(* DriftTracker and PatternRecognizer applied to histories of records      *)
(***************************************************************************)
MaxTracked == 5

\* the JSON text of a record with the given category, integrity and violated
\* constraints
TrackedText(id, type, integrity, violated) ==
  LET doc == RecordDoc(id, id, JNum(integrity)).m
      violation(c) == JObj([constraint |-> JStr(c), severity |-> JStr("HIGH")])
  IN  JsonText(JObj(
        [k \in DOMAIN doc |->
           CASE k = "classification" ->
                  JObj([type |-> JStr(type), confidence |-> JNum(5000),
                        consensusStrength |-> JNum(Unit)])
             [] k = "constraints" ->
                  JObj([violations |-> JArr([i \in DOMAIN violated |->
                                               violation(violated[i])]),
                        overallConfidence |-> JNum(Unit)])
             [] OTHER -> doc[k]]))

TrackedTexts ==
  { TrackedText(1, "FACT", 90 * Milli, <<>>),
    TrackedText(2, "SYMBOL", 70 * Milli, <<"PHYS-002">>),
    TrackedText(3, "LIE", 50 * Milli, <<>>),
    TrackedText(4, "IMAGINATION", 30 * Milli, <<"PHYS-002", "SOC-001">>),
    TrackedText(5, "UNCLEAR", 10 * Milli, <<>>) }

\* a record is imported
ImportTracked(jsonStr) ==
  LET r == importAnalysis(history, jsonStr) IN
  /\ Len(history) < MaxTracked
  /\ history' = r.history
  /\ call' = [op |-> "importAnalysis", arg |-> jsonStr, threw |-> r.threw,
              ret |-> r.value]
  /\ UNCHANGED now

\* line 317: this.drift.calculate(this.history)
ApplyCalculate ==
  LET r == calculate(history, DriftWindow) IN
  /\ call' = [op |-> "calculate", arg |-> Len(history), threw |-> r.threw,
              ret |-> IF r.threw THEN Str(r.error) ELSE r.value]
  /\ UNCHANGED <<history, now>>

\* line 318: this.patterns.recognize(this.history)
ApplyRecognize ==
  LET r == recognize(history) IN
  /\ call' = [op |-> "recognize", arg |-> Len(history), threw |-> r.threw,
              ret |-> IF r.threw THEN Str(r.error) ELSE r.value]
  /\ UNCHANGED <<history, now>>

NextTrack ==
  \/ \E s \in TrackedTexts : ImportTracked(s)
  \/ ApplyCalculate
  \/ ApplyRecognize

SpecTrack == Init /\ [][NextTrack]_vars

(***************************************************************************)
(* The trackers over histories longer than the window of the drift.        *)
(***************************************************************************)
MaxDrift == 6

DriftTexts ==
  { TrackedText(1, "FACT", 58 * Milli, <<>>),
    TrackedText(2, "FACT", 62 * Milli, <<>>),
    TrackedText(3, "FACT", 90 * Milli, <<>>) }

\* a record is imported
ImportDrift(jsonStr) ==
  LET r == importAnalysis(history, jsonStr) IN
  /\ Len(history) < MaxDrift
  /\ history' = r.history
  /\ call' = [op |-> "importAnalysis", arg |-> jsonStr, threw |-> r.threw,
              ret |-> r.value]
  /\ UNCHANGED now

\* a text is analysed
AnalyzeDrift(input, context) ==
  \E noise \in NoiseDraws, stamp \in now..Min(now + 1, MaxClock) :
    LET r == analyze(history, now, stamp, input, context, noise) IN
    /\ Len(r.history) <= MaxDrift
    /\ history' = r.history
    /\ now' = stamp
    /\ call' = [op |-> "analyze", arg |-> <<input, context>>, threw |-> r.threw,
                ret |-> IF r.threw THEN Str(r.error) ELSE r.value]

NextDrift ==
  \/ \E s \in DriftTexts : ImportDrift(s)
  \/ AnalyzeDrift(ScenarioA, [domain |-> "engineering"])
  \/ ApplyCalculate
  \/ ApplyRecognize

SpecDrift == Init /\ [][NextDrift]_vars

(***************************************************************************)
(* Properties of the session engine                                        *)
(***************************************************************************)
IsPrefix(s, t) == Len(s) <= Len(t) /\ SubSeq(t, 1, Len(s)) = s

\* a value that has every field of an analysis record
IsRecord(v) == v.t = "object" /\ RecordKeys \subseteq DOMAIN v.o

\* a text that parses to an object with every field of an analysis record
IsRecordText(s) ==
  /\ HasField(s, "json")
  /\ s.json.j = "object"
  /\ RecordKeys \subseteq DOMAIN s.json.m

HasId(v) == v.t = "object" /\ HasField(v.o, "id")

HasIntegrity(v) ==
  /\ v.t = "object"
  /\ HasField(v.o, "structural")
  /\ v.o.structural.t = "object"
  /\ HasField(v.o.structural.o, "integrity")

\* C1: every call of analyze completes without raising and returns a record
\* that carries classification, constraints, physics, shadow, structural,
\* temporal, status, repairProtocols and consequences.
C1_AnalyzeReturnsRecord ==
  call.op = "analyze" =>
    /\ ~call.threw
    /\ call.ret.t = "object"
    /\ { "classification", "constraints", "physics", "shadow", "structural",
         "temporal", "status", "repairProtocols", "consequences" }
         \subseteq DOMAIN call.ret.o

\* C2: a call of analyze leaves its record as the last element of history, and
\* the drift and the patterns on the returned record are those of the history
\* that ends with it.
C2_AnalyzeAppendsThenTracks ==
  call.op = "analyze" =>
    /\ ~call.threw
    /\ Len(history) >= 1
    /\ history[Len(history)] = call.ret
    /\ Get(call.ret, "drift") = calculate(history, DriftWindow)
    /\ Get(call.ret, "patterns") = recognize(history)

\* C5: history is append-only: the history before a step is a prefix of the
\* history after it, and exportAnalysis and compareAnalyses leave it as it is.
C5_HistoryAppendOnly ==
  [][/\ IsPrefix(history, history')
     /\ call'.op \in {"exportAnalysis", "compareAnalyses"} => history' = history]_vars

\* a record was imported into a history that held two others, and an export
\* and a comparison before it left them in place
C5_Witness ==
  /\ call.op = "importAnalysis"
  /\ Len(history) = 3
  /\ history[1] # history[3]
  /\ IsRecord(history[1]) /\ IsRecord(history[2]) /\ IsRecord(history[3])

\* C6: no two records in history have the same id.
C6_UniqueIds ==
  \A i, j \in DOMAIN history :
    i < j /\ HasId(history[i]) /\ HasId(history[j]) =>
      history[i].o.id # history[j].o.id

\* C7: every record in history has an integrity in [0,100].
C7_IntegrityInRange ==
  \A i \in DOMAIN history :
    HasIntegrity(history[i]) =>
      LET integrity == history[i].o.structural.o.integrity
      IN  integrity.t = "number" /\ 0 <= integrity.n /\ integrity.n <= 100 * Milli

\* C8: importAnalysis of a text that is not a serialized analysis record
\* returns null and does not raise.
C8_MalformedImportAbsent ==
  call.op = "importAnalysis" /\ ~IsRecordText(call.arg) =>
    ~call.threw /\ call.ret = Null

\* C9: a successful importAnalysis appends the parsed value as the last
\* element of history, as it was supplied, returns it, and leaves every other
\* element as it was.
C9_ImportAppendsAsSupplied ==
  [][/\ call'.op = "importAnalysis"
      /\ HasField(call'.arg, "json")
      /\ ImportAnalysis(call'.arg)
      => /\ history' = Append(history, ParseDoc(call'.arg.json))
         /\ call'.ret = ParseDoc(call'.arg.json)]_vars

\* a record with a drift of null and an integrity of 150 was imported after
\* two records: it is last in history with those values
C9_Witness ==
  /\ call.op = "importAnalysis"
  /\ call.arg = RecordC
  /\ Len(history) = 3
  /\ IsRecord(history[1]) /\ IsRecord(history[2])
  /\ history[3] = call.ret
  /\ history[3].o.drift = Null
  /\ history[3].o.structural.o.integrity = Num(150 * Milli)
  /\ history[3].o.id = Num(2)

\* C10: for every record r of a history of records, exportAnalysis(r.id)
\* yields a text whose import returns a value equal to r.
C10_RoundTrip ==
  (\A i \in DOMAIN history : IsRecord(history[i])) =>
    \A i \in DOMAIN history :
      LET e == exportAnalysis(history, history[i].o.id) IN
      /\ ~e.threw
      /\ HasField(e.value, "json")
      /\ importAnalysis(history, e.value).value = history[i]

\* a.id === id for an element a of history that is neither null nor undefined
Matches(a, id) ==
  /\ a.t \notin {"null", "undefined"}
  /\ StrictEquals(Get(a, "id").value, id)

\* C11: exportAnalysis(id) returns null when no element of history has that
\* id, the serialization of an element with that id otherwise, and does not
\* raise, on every history that imports can build.
C11_ExportAbsentOrSerialized ==
  call.op = "exportAnalysis" =>
    /\ ~call.threw
    /\ LET present == {i \in DOMAIN history : Matches(history[i], call.arg)}
       IN  IF present = {} THEN call.ret = Null
           ELSE \E i \in present : call.ret = JSONstringify(history[i])

\* C12: compareAnalyses(ids) returns, in the order of ids, one element of
\* history for each requested id that history holds, each with the id
\* requested at its position among the matches, and nothing for the others.
C12_CompareInOrder ==
  call.op = "compareAnalyses" =>
    /\ ~call.threw
    /\ LET held(id) == \E i \in DOMAIN history : Matches(history[i], id)
           requested == SelectSeq(call.arg, held)
       IN  /\ call.ret.t = "array"
           /\ Len(call.ret.a) = Len(requested)
           /\ \A k \in DOMAIN requested :
                /\ Matches(call.ret.a[k], requested[k])
                /\ \E i \in DOMAIN history : history[i] = call.ret.a[k]

\* C14: two fresh engines given the same (text, context) build records that
\* agree on every field but consequences, id and timestamp among them.  The
\* first engine is called at clock reading 0, the second at the current one;
\* the fields are those the record literal of lines 300-312 evaluates.
C14_FreshEnginesAgree ==
  \A in \in SessionInputs :
    LET p == PipelineOf(in[1], in[2])
        first == AnalysisRecord(0, 0, in[1], in[2], p, <<>>)
        second == AnalysisRecord(now, now, in[1], in[2], p, <<>>)
    IN  \A k \in DOMAIN first.o \ {"consequences"} : first.o[k] = second.o[k]

\* the integrity of the records of h falls from each record to the next
Declining(h) ==
  \A i \in 2..Len(h) :
    h[i].o.structural.o.integrity.n < h[i - 1].o.structural.o.integrity.n

\* the number of PROGRESSIVE_DECAY patterns of severity CRITICAL in a list
DecayCount(patterns) ==
  Cardinality({k \in DOMAIN patterns.a :
                 /\ patterns.a[k].o.type = Str("PROGRESSIVE_DECAY")
                 /\ patterns.a[k].o.severity = Str("CRITICAL")})

\* C19: recognize reports exactly one PROGRESSIVE_DECAY pattern of severity
\* CRITICAL when history has at least 3 records whose integrity is strictly
\* decreasing throughout, and none otherwise; and an analyze call returns a
\* record whose patterns are those of the history it leaves, so that a third
\* analysis of declining integrity carries the pattern.
C19_ProgressiveDecay ==
  /\ (\A i \in DOMAIN history : IsRecord(history[i])) =>
       LET r == recognize(history) IN
       /\ ~r.threw
       /\ DecayCount(r.value) =
            (IF Len(history) >= 3 /\ Declining(history) THEN 1 ELSE 0)
  /\ call.op = "analyze" =>
       /\ ~call.threw
       /\ Len(history) >= 1 /\ history[Len(history)] = call.ret
       /\ Get(call.ret, "patterns") = recognize(history)

\* C28: importAnalysis changes history exactly when it returns something
\* other than null: a call that returns null leaves history as it was.
C28_ImportChangesIffSuccess ==
  [][/\ call'.op = "importAnalysis"
      /\ ImportAnalysis(call'.arg)
      => /\ ~call'.threw
         /\ (history' # history <=> call'.ret # Null)]_vars

\* the ids of the axioms that are to be reported for (stmt, ctx): the
\* universal axioms, then those of the domain of ctx where it names one,
\* each where its predicate holds
ExpectedViolations(stmt, ctx) ==
  LET domain == IF HasField(ctx, "domain") THEN ctx.domain ELSE "universal"
      active == universal \o (CASE domain = "medical" -> medical
                                [] domain = "legal" -> legal
                                [] domain = "engineering" -> engineering
                                [] OTHER -> <<>>)
      holds(c) == AxiomTest(c.id, stmt, ctx)
      hits == SelectSeq(active, holds)
  IN  [i \in DOMAIN hits |-> [constraint |-> hits[i].id, severity |-> hits[i].severity]]

\* the violations testAll has reported, reduced to id and severity
ReportedViolations(constraints) ==
  [i \in DOMAIN constraints.violations |->
     [constraint |-> constraints.violations[i].constraint,
      severity |-> constraints.violations[i].severity]]

\* C21: testAll reports exactly the active axioms whose predicate holds,
\* universal ones first and none of them dropped, and an analysis of a text
\* that violates the conservation axiom returns a record with status HALT.
C21_ConstraintEvaluation ==
  call.op = "analyze" =>
    LET stmt == call.arg[1]
        ctx == call.arg[2]
        expected == ExpectedViolations(stmt, ctx)
    IN  /\ ReportedViolations(PipelineOf(stmt, ctx).constraints) = expected
        /\ (\E i \in DOMAIN expected : expected[i].constraint = "PHYS-001") =>
             /\ ~call.threw
             /\ Get(call.ret, "status") = Return(Str("HALT"))

(***************************************************************************)
(* Properties of the pure steps                                            *)
(***************************************************************************)
\* C3: the stored integrity lies in [0,100] and the stored status is the one
\* the thresholds give for the stored integrity, also where the raw product
\* is above 100.
C3_StructuralInRange ==
  call.op = "structural" =>
    LET s == call.ret.structural IN
    /\ 0 <= s.integrity /\ s.integrity <= 100 * Milli
    /\ s.status = (IF s.integrity >= 80 * Milli THEN "OPTIMAL"
                   ELSE IF s.integrity >= 60 * Milli THEN "STABLE"
                   ELSE IF s.integrity >= 40 * Milli THEN "STRESSED"
                   ELSE IF s.integrity >= 20 * Milli THEN "CRITICAL"
                   ELSE "FAILING")

\* a raw product above 100 was stored as 100 with status OPTIMAL
C3_Witness ==
  /\ call.op = "structural"
  /\ call.ret.raw > 100 * Milli
  /\ call.ret.structural = [integrity |-> 100 * Milli, status |-> "OPTIMAL"]

\* C4: determineStatus returns the result of the first rule that matches, in
\* the order: a CRITICAL violation -> HALT, integrity < 20 -> HALT,
\* consensusStrength < 0.5 -> HALT_RECLASSIFY, integrity < 50 ->
\* PROCEED_SANDBOX, else PROCEED.
C4_StatusPriority ==
  call.op = "determineStatus" =>
    LET violations == call.arg[2].violations
        critical == \E i \in DOMAIN violations : violations[i].severity = "CRITICAL"
        integrity == call.arg[3].integrity
        weak == 2 * call.arg[1].consensusStrength < Unit
    IN  /\ critical => call.ret = "HALT"
        /\ ~critical /\ integrity < 20 * Milli => call.ret = "HALT"
        /\ ~critical /\ integrity >= 20 * Milli /\ weak => call.ret = "HALT_RECLASSIFY"
        /\ ~critical /\ integrity >= 20 * Milli /\ ~weak /\ integrity < 50 * Milli
             => call.ret = "PROCEED_SANDBOX"
        /\ ~critical /\ ~weak /\ integrity >= 50 * Milli => call.ret = "PROCEED"

\* a CRITICAL violation with weak consensus and full integrity gave HALT
C4_Witness ==
  /\ call.op = "determineStatus"
  /\ \E i \in DOMAIN call.arg[2].violations :
       call.arg[2].violations[i].severity = "CRITICAL"
  /\ 2 * call.arg[1].consensusStrength < Unit
  /\ call.arg[3].integrity = 100 * Milli
  /\ call.ret = "HALT"

\* C15: the outcomes simulate returns have percentages that sum to 100, their
\* counts split the 100 trials among distinct outcome kinds, and the list is
\* sorted by probability, largest first.
C15_SimulationPartition ==
  call.op = "simulate" =>
    /\ ~call.threw
    /\ LET q == call.ret IN
       /\ SumSeq([k \in DOMAIN q |-> q[k].probability]) = 100
       /\ SumSeq([k \in DOMAIN q |-> q[k].count]) = Iterations
       /\ \A k \in DOMAIN q :
            /\ q[k].outcome \in {"CATASTROPHIC_FAILURE", "PARTIAL_FAILURE",
                                 "DEGRADED_SUCCESS", "SUCCESS"}
            /\ q[k].count =
                 Cardinality({i \in 1..Iterations :
                   LET b == call.arg[1] + call.arg[2][i] IN
                   CASE q[k].outcome = "CATASTROPHIC_FAILURE" -> b < 30 * Milli
                     [] q[k].outcome = "PARTIAL_FAILURE" ->
                          b >= 30 * Milli /\ b < 50 * Milli
                     [] q[k].outcome = "DEGRADED_SUCCESS" ->
                          b >= 50 * Milli /\ b < 70 * Milli
                     [] OTHER -> b >= 70 * Milli})
       /\ \A j, k \in DOMAIN q :
            /\ j < k => q[j].probability >= q[k].probability
            /\ j # k => q[j].outcome # q[k].outcome

\* the kind of the first trial came up once, the other kind 99 times, and the
\* kind with 99 is listed first
C15_Witness ==
  /\ call.op = "simulate"
  /\ Len(call.ret) = 2
  /\ call.ret[1].probability = 99 /\ call.ret[2].count = 1
  /\ call.ret[2].outcome = "CATASTROPHIC_FAILURE"
  /\ call.arg[1] + call.arg[2][1] < 30 * Milli

\* C16: the consensusStrength classify returns is one of 0.25, 0.5, 0.75, 1,
\* equals the number of agents whose type is the returned type divided by 4,
\* no type has more agents, and dissentingOpinions holds the other agents in
\* agent order.
C16_ConsensusStrength ==
  call.op = "classify" =>
    LET c == call.ret
        agents == c.agentResults
        count(t) == Cardinality({i \in DOMAIN agents : agents[i].type = t})
        other(a) == a.type # c.type
    IN  /\ Len(agents) = 4
        /\ c.consensusStrength \in {2500, 5000, 7500, 10000}
        /\ 4 * c.consensusStrength = count(c.type) * Unit
        /\ \A i \in DOMAIN agents : count(agents[i].type) <= count(c.type)
        /\ c.dissentingOpinions = SelectSeq(agents, other)

\* two agents agree on UNCLEAR, the Literalist and the Skeptic dissent
C16_Witness ==
  /\ call.op = "classify"
  /\ call.ret.type = "UNCLEAR"
  /\ call.ret.consensusStrength = 5000
  /\ Len(call.ret.dissentingOpinions) = 2
  /\ call.ret.dissentingOpinions[1].name = "Literalist"
  /\ call.ret.dissentingOpinions[2].name = "Skeptic"

\* C22: the type classify returns is the most frequent type among the four
\* agents, on a tie the type of the first agent (Literalist, Contextualist,
\* Skeptic, Visionary) whose type has the largest count, and the confidence
\* is the mean of the confidences of the agents of that type.
C22_MajorityAndMean ==
  call.op = "classify" =>
    LET c == call.ret
        agents == c.agentResults
        count(t) == Cardinality({i \in DOMAIN agents : agents[i].type = t})
        most == CHOOSE n \in 1..4 :
                  /\ \E i \in DOMAIN agents : count(agents[i].type) = n
                  /\ \A i \in DOMAIN agents : count(agents[i].type) <= n
        leader == CHOOSE i \in DOMAIN agents :
                    /\ count(agents[i].type) = most
                    /\ \A j \in DOMAIN agents : count(agents[j].type) = most => i <= j
        holding == {i \in DOMAIN agents : agents[i].type = c.type}
        total == SumSeq([i \in DOMAIN agents |->
                           IF i \in holding THEN agents[i].confidence ELSE 0])
    IN  /\ [i \in DOMAIN agents |-> agents[i].name]
             = <<"Literalist", "Contextualist", "Skeptic", "Visionary">>
        /\ c.type = agents[leader].type
        /\ c.confidence * Cardinality(holding) = total

\* all four detectors match: four types tie with one agent each, and the
\* type of the Literalist is returned with its confidence
C22_Witness ==
  /\ call.op = "classify"
  /\ \A i \in 1..4 : call.ret.agentResults[i].type # "UNCLEAR"
  /\ call.ret.type = "FACT"
  /\ call.ret.confidence = 8500

\* C17: for the empty text and for a text of white space alone the physics
\* has coherence 0, entropy 0, impedance 0 and resilience 1.
C17_DegenerateText ==
  call.op = "physics" /\ call.arg \in {"", "   "} =>
    /\ ~call.threw
    /\ call.ret.coherence.value = 0
    /\ call.ret.entropy.value = 0
    /\ call.ret.impedance.value = 0
    /\ call.ret.resilience.value = Unit

\* C18: the soundness of every text lies in [0,100] and each of the four
\* normalized components lies in [0,1], also for texts whose hedge words
\* outweigh the absolute and the obligatory ones.
C18_PhysicsRanges ==
  call.op = "physics" =>
    /\ 0 <= call.ret.soundness /\ call.ret.soundness <= 100
    /\ \A k \in {"coherence", "entropy", "impedance", "resilience"} :
         0 <= call.ret[k].normalized /\ call.ret[k].normalized <= Unit

\* what the projections are said to depend on
ProjectionKey(analysis) ==
  <<analysis.classification.type, analysis.physics.entropy.normalized,
    analysis.physics.resilience.normalized, analysis.structural.integrity>>

\* C25: project returns three projections, immediate (1h), short (24h) and
\* medium (168h) in this order, each with an integer probability from 1 to
\* 99, and two analyses that agree on the category, the normalized entropy,
\* the normalized resilience and the integrity have the same projections.
C25_Projections ==
  call.op = "project" =>
    /\ Len(call.ret) = 3
    /\ [i \in 1..3 |-> <<call.ret[i].horizon, call.ret[i].timeRange>>]
         = << <<"immediate", "1h">>, <<"short", "24h">>, <<"medium", "168h">> >>
    /\ \A i \in 1..3 : call.ret[i].probability \in 1..99
    /\ \A e \in ProjectTable :
         ProjectionKey(e[1]) = ProjectionKey(call.arg) => e[2] = call.ret

\* a FACT of integrity 100 without decay: 110 at every horizon, held at 99
C25_Witness ==
  /\ call.op = "project"
  /\ call.arg.classification.type = "FACT"
  /\ call.arg.structural.integrity = 100 * Milli
  /\ call.arg.physics.entropy.normalized = 0
  /\ call.arg.physics.resilience.normalized = Unit
  /\ call.ret[1].probability = 99
  /\ call.ret[3].probability = 99

\* C26: the type classify returns is FACT or UNCLEAR, never SYMBOL, LIE or
\* IMAGINATION, however the four patterns match, and the classification that
\* analyze hands to project is never LIE.
C26_FactOrUnclear ==
  /\ call.op = "classify" => call.ret.type \in {"FACT", "UNCLEAR"}
  /\ call.op = "structural" =>
       PipelineOf(call.arg[1], call.arg[2]).classification.type
         \in {"FACT", "UNCLEAR"}

\* the Contextualist, the Skeptic and the Visionary match and the Literalist
\* does not: four types with one agent each, and UNCLEAR is returned
C26_Witness ==
  /\ call.op = "classify"
  /\ [i \in 1..4 |-> call.ret.agentResults[i].type]
       = <<"UNCLEAR", "SYMBOL", "LIE", "IMAGINATION">>
  /\ call.ret.type = "UNCLEAR"

\* C27: a classification of type FACT has consensusStrength 0.25, and the
\* status determined with it is HALT or HALT_RECLASSIFY whatever the
\* violations and the integrity are, never PROCEED or PROCEED_SANDBOX.
C27_FactNeverProceeds ==
  /\ call.op = "classify" /\ call.ret.type = "FACT" =>
       /\ call.ret.consensusStrength = 2500
       /\ \A severities \in Severities, integrity \in Integrities :
            determineStatus(call.ret,
                            [violations |-> [i \in DOMAIN severities |->
                                              [severity |-> severities[i]]]],
                            [integrity |-> integrity, status |-> StatusOf(integrity)])
              \in {"HALT", "HALT_RECLASSIFY"}
  /\ call.op = "structural" =>
       LET p == PipelineOf(call.arg[1], call.arg[2])
       IN  p.classification.type = "FACT" =>
             /\ p.classification.consensusStrength = 2500
             /\ p.status \in {"HALT", "HALT_RECLASSIFY"}

\* a FACT without a CRITICAL violation and of integrity 20 or more: the
\* status is HALT_RECLASSIFY
C27_Witness ==
  /\ call.op = "structural"
  /\ PipelineOf(call.arg[1], call.arg[2]).classification.type = "FACT"
  /\ call.ret.structural.integrity >= 20 * Milli
  /\ PipelineOf(call.arg[1], call.arg[2]).status = "HALT_RECLASSIFY"

\* the place of an outcome in the order from failure to success
OutcomeRank(o) ==
  CASE o = "CATASTROPHIC_FAILURE" -> 1
    [] o = "PARTIAL_FAILURE" -> 2
    [] o = "DEGRADED_SUCCESS" -> 3
    [] o = "SUCCESS" -> 4

\* C29: one run of simulate on an integrity from 0 to 100 yields at most two
\* outcomes, which are neighbours in the order CATASTROPHIC_FAILURE,
\* PARTIAL_FAILURE, DEGRADED_SUCCESS, SUCCESS; an integrity of 80 or more
\* yields SUCCESS alone and one below 20 CATASTROPHIC_FAILURE alone.
C29_AdjacentOutcomes ==
  call.op = "simulate" =>
    LET integrity == call.arg[1]
        kinds == {call.ret[i].outcome : i \in DOMAIN call.ret}
    IN  /\ ~call.threw
        /\ Cardinality(kinds) \in 1..2
        /\ \A a, b \in kinds : OutcomeRank(a) - OutcomeRank(b) \in -1..1
        /\ integrity >= 80 * Milli => kinds = {"SUCCESS"}
        /\ integrity < 20 * Milli => kinds = {"CATASTROPHIC_FAILURE"}

\* integrity 65 with noise at both ends of its range: DEGRADED_SUCCESS at 55
\* and SUCCESS just below 75
C29_Witness ==
  /\ call.op = "simulate"
  /\ call.arg[1] = 65 * Milli
  /\ {call.ret[i].outcome : i \in DOMAIN call.ret} = {"DEGRADED_SUCCESS", "SUCCESS"}

(***************************************************************************)
(* Properties of the trackers                                              *)
(***************************************************************************)
\* C13: the drift is null exactly when history holds fewer than 2 records at
\* the time it is computed, and the pattern list is empty whenever history
\* holds fewer than 3 records.
C13_TrackingGuards ==
  /\ call.op = "calculate" =>
       ~call.threw /\ (call.ret = Null <=> Len(history) < 2)
  /\ call.op = "recognize" /\ Len(history) < 3 =>
       ~call.threw /\ call.ret = Arr(<<>>)

\* the drift of a history of exactly two records is an object
C13_Witness ==
  /\ call.op = "calculate"
  /\ Len(history) = 2
  /\ call.ret.t = "object"
  /\ call.ret.o.trend = Str("DEGRADING")

\* the number of CLASSIFICATION_DRIFT patterns of severity MODERATE in a list
DriftCount(patterns) ==
  Cardinality({k \in DOMAIN patterns.a :
                 /\ patterns.a[k].o.type = Str("CLASSIFICATION_DRIFT")
                 /\ patterns.a[k].o.severity = Str("MODERATE")})

\* the categories classify gives, over a text for every way the patterns of
\* the agents can match
Categories == { e[2].type : e \in ClassifyTable }

\* C20: recognize reports one CLASSIFICATION_DRIFT pattern of severity
\* MODERATE exactly when history has at least 5 records whose categories are
\* pairwise distinct, and analyses can produce such a history: classify yields
\* at least five categories.
C20_ClassificationDrift ==
  /\ call.op = "recognize" =>
       /\ ~call.threw
       /\ DriftCount(call.ret) =
            (IF /\ Len(history) >= 5
                /\ \A i, j \in DOMAIN history :
                     i # j => history[i].o.classification.o.type
                                # history[j].o.classification.o.type
             THEN 1 ELSE 0)
  /\ Cardinality(Categories) >= 5

\* the number of times the axiom id occurs in the violations of the records
\* of history
Tally(id) ==
  SumSeq([i \in DOMAIN history |->
            Cardinality({j \in DOMAIN history[i].o.constraints.o.violations.a :
                           history[i].o.constraints.o.violations.a[j].o.constraint = id})])

\* the axiom ids that occur in the violations of the records of history
TalliedIds ==
  UNION {{history[i].o.constraints.o.violations.a[j].o.constraint :
            j \in DOMAIN history[i].o.constraints.o.violations.a} :
         i \in DOMAIN history}

\* C24: for a history of at least 3 records recognize reports, for every
\* axiom id that occurs at least 3 times in the violations of all the
\* records, exactly one RECURRING_VIOLATION pattern, of severity HIGH and
\* with the number of occurrences as frequency, and none for an id that
\* occurs less often.
C24_RecurringViolation ==
  call.op = "recognize" /\ Len(history) >= 3 =>
    LET patterns == call.ret.a
        recurring == {k \in DOMAIN patterns :
                        patterns[k].o.type = Str("RECURRING_VIOLATION")}
        of(id) == {k \in recurring : patterns[k].o.detail = id}
    IN  /\ ~call.threw
        /\ \A k \in recurring : patterns[k].o.detail \in TalliedIds
        /\ \A id \in TalliedIds :
             IF Tally(id) >= 3
             THEN /\ Cardinality(of(id)) = 1
                  /\ \A k \in of(id) :
                       /\ patterns[k].o.severity = Str("HIGH")
                       /\ patterns[k].o.frequency = Num(Tally(id))
             ELSE of(id) = {}

\* PHYS-002 is violated four times and SOC-001 twice: one pattern, for
\* PHYS-002 with frequency 4
C24_Witness ==
  /\ call.op = "recognize"
  /\ Len(history) = 4
  /\ Tally(Str("PHYS-002")) = 4
  /\ Tally(Str("SOC-001")) = 2
  /\ \E k \in DOMAIN call.ret.a :
       /\ call.ret.a[k].o.type = Str("RECURRING_VIOLATION")
       /\ call.ret.a[k].o.detail = Str("PHYS-002")
       /\ call.ret.a[k].o.frequency = Num(4)
  /\ \A k \in DOMAIN call.ret.a : call.ret.a[k].o.detail # Str("SOC-001")

(***************************************************************************)
(* Properties of the drift tracker                                         *)
(***************************************************************************)
\* the integrity of the i-th record of history
IntegrityAt(i) == Get2(history[i], "structural", "integrity").value.n

\* C23: for a history of at least 2 records calculate is computed from the
\* last min(5, length) records alone: avgIntegrity is the mean of their
\* integrities, trendValue the integrity of the last of them minus that of
\* the first of them, trend is IMPROVING above 5, DEGRADING below -5 and
\* STABLE otherwise, and the warning is CRITICAL_DECAY exactly when the mean
\* is below 60 and trendValue is negative.
C23_DriftWindow ==
  call.op = "calculate" /\ Len(history) >= 2 =>
    LET n == IF Len(history) < 5 THEN Len(history) ELSE 5
        first == Len(history) - n + 1
        total == SumSeq([i \in 1..n |-> IntegrityAt(first + i - 1)])
        delta == IntegrityAt(Len(history)) - IntegrityAt(first)
    IN  /\ ~call.threw
        /\ call.ret =
             Obj([avgIntegrity |-> Num(DivRound(total, n)),
                  trend |-> Str(CASE delta > 5 * Milli -> "IMPROVING"
                                  [] delta < -5 * Milli -> "DEGRADING"
                                  [] OTHER -> "STABLE"),
                  trendValue |-> Num(delta),
                  warning |-> IF total < 60 * Milli * n /\ delta < 0
                              THEN Str("CRITICAL_DECAY") ELSE Null])

\* six records, the oldest of integrity 90 and outside the window: the drift
\* is that of the last five, 62 down to 58
C23_Witness ==
  /\ call.op = "calculate"
  /\ Len(history) = 6
  /\ IntegrityAt(1) = 90 * Milli
  /\ IntegrityAt(2) = 62 * Milli
  /\ IntegrityAt(6) = 58 * Milli
  /\ call.ret.o.trend = Str("STABLE")
  /\ call.ret.o.trendValue = Num(-4 * Milli)
  /\ call.ret.o.warning = Str("CRITICAL_DECAY")

\* history holds at least 3 records and their integrity is not strictly
\* decreasing
DeclineBroken == Len(history) >= 3 /\ ~Declining(history)

\* the last recognize reported a PROGRESSIVE_DECAY pattern
DecayReported ==
  /\ call.op = "recognize"
  /\ ~call.threw
  /\ \E k \in DOMAIN call.ret.a : call.ret.a[k].o.type = Str("PROGRESSIVE_DECAY")

\* C30: once history holds at least 3 records whose integrity is not
\* strictly decreasing, no recognize reports PROGRESSIVE_DECAY, neither for
\* this history nor after any further analyze or importAnalysis calls.
C30_DecayIrreversible == [](DeclineBroken => [](~DecayReported))

\* recognize on four records of which the last three decline, 90, 62, 58,
\* after a first of 58: no PROGRESSIVE_DECAY
C30_Witness ==
  /\ call.op = "recognize"
  /\ ~call.threw
  /\ Len(history) = 4
  /\ [i \in 1..4 |-> IntegrityAt(i)] = <<58 * Milli, 90 * Milli, 62 * Milli, 58 * Milli>>
  /\ ~DecayReported
====
